---------------------------- MODULE Spec2Model ----------------------------
(***************************************************************************)
(* Model of the KCNA question-bank tools:                                  *)
(*   tools/build_kcna_from_pdf.py   (Pipeline A: parse_quizzes,            *)
(*                                   parse_solutions, merge)               *)
(*   tools/fill_options_from_pdf.py (Pipeline B: parse_quizzes, fill_json) *)
(*                                                                         *)
(* A text is a sequence of characters, each character a one-element        *)
(* string; the characters Python writes as escapes are named tokens        *)
(* ("SHY" is U+00AD, "LSQUO"/"RSQUO" are U+2018/U+2019, "LDQUO"/"RDQUO"    *)
(* are U+201C/U+201D).  A line is a text without its line terminator.      *)
(* None is <<>> and a present value v is <<v>>.                            *)
(***************************************************************************)
EXTENDS Naturals, Integers, Sequences, FiniteSets, TLC

(***************************************************************************)
(* Characters and character classes                                        *)
(***************************************************************************)
None == <<>>
Some(v) == <<v>>

\* \s of the re module, restricted to the blank characters a line can hold
Whitespace == {" ", "\t"}

\* \d of the re module
Digits == <<"0", "1", "2", "3", "4", "5", "6", "7", "8", "9">>

LowerLetters ==
  <<"a", "b", "c", "d", "e", "f", "g", "h", "i", "j", "k", "l", "m",
    "n", "o", "p", "q", "r", "s", "t", "u", "v", "w", "x", "y", "z">>

UpperLetters ==
  <<"A", "B", "C", "D", "E", "F", "G", "H", "I", "J", "K", "L", "M",
    "N", "O", "P", "Q", "R", "S", "T", "U", "V", "W", "X", "Y", "Z">>

IsWs(c) == c \in Whitespace

IsDigit(c) == \E d \in DOMAIN Digits : Digits[d] = c

DigitValue(c) == (CHOOSE d \in DOMAIN Digits : Digits[d] = c) - 1

\* str.lower() on one character
LowerChar(c) ==
  IF \E n \in DOMAIN UpperLetters : UpperLetters[n] = c
    THEN LowerLetters[CHOOSE n \in DOMAIN UpperLetters : UpperLetters[n] = c]
    ELSE c

\* str.upper() on one character
UpperChar(c) ==
  IF \E n \in DOMAIN LowerLetters : LowerLetters[n] = c
    THEN UpperLetters[CHOOSE n \in DOMAIN LowerLetters : LowerLetters[n] = c]
    ELSE c

Lower(s) == [n \in DOMAIN s |-> LowerChar(s[n])]

Upper(s) == [n \in DOMAIN s |-> UpperChar(s[n])]

(***************************************************************************)
(* String primitives of Python used by the tools                           *)
(***************************************************************************)
Drop(s, n) == SubSeq(s, n + 1, Len(s))

Take(s, n) == SubSeq(s, 1, n)

\* number of leading whitespace characters
LeadWs(s) ==
  CHOOSE n \in 0..Len(s) :
    /\ \A k \in 1..n : IsWs(s[k])
    /\ n < Len(s) => ~IsWs(s[n + 1])

\* number of trailing whitespace characters
TrailWs(s) ==
  CHOOSE n \in 0..Len(s) :
    /\ \A k \in (Len(s) - n + 1)..Len(s) : IsWs(s[k])
    /\ n < Len(s) => ~IsWs(s[Len(s) - n])

\* number of leading digits
LeadDigits(s) ==
  CHOOSE n \in 0..Len(s) :
    /\ n < Len(s) => ~IsDigit(s[n + 1])
    /\ \A k \in 1..n : IsDigit(s[k])

LStrip(s) == Drop(s, LeadWs(s))

RStrip(s) == Take(s, Len(s) - TrailWs(s))

\* str.strip()
Strip(s) ==
  IF LeadWs(s) = Len(s) THEN <<>>
  ELSE SubSeq(s, LeadWs(s) + 1, Len(s) - TrailWs(s))

\* str.startswith(p)
StartsWith(s, p) == Len(s) >= Len(p) /\ Take(s, Len(p)) = p

\* str.endswith(p)
EndsWith(s, p) == Len(s) >= Len(p) /\ Drop(s, Len(s) - Len(p)) = p

\* sep.join(parts)
RECURSIVE Join(_, _)
Join(sep, parts) ==
  IF parts = <<>> THEN <<>>
  ELSE IF Len(parts) = 1 THEN parts[1]
  ELSE parts[1] \o sep \o Join(sep, Tail(parts))

\* int(digits)
\* int(ds) raises ValueError when ds has more digits than
\* sys.int_info.default_max_str_digits, the limit of CPython's int()
int_max_str_digits == 4300

IntRaises(ds) == Len(ds) > int_max_str_digits

RECURSIVE ToInt(_)
ToInt(ds) ==
  IF ds = <<>> THEN 0
  ELSE 10 * ToInt(Take(ds, Len(ds) - 1)) + DigitValue(ds[Len(ds)])

\* the characters of s that are not "": how a substitution drops a character
Kept(s) == SelectSeq(s, LAMBDA c : c # "")

\* s[n] is whitespace of a run that directly follows a hyphen
AfterHyphen(s, n) ==
  \E m \in 1..(n - 1) : s[m] = "-" /\ \A k \in (m + 1)..n : IsWs(s[k])

\* re.sub(r'-\s+', '', s): a hyphen followed by whitespace goes, and so does
\* the whitespace run after it
SubHyphenWs(s) ==
  Kept([n \in DOMAIN s |->
          IF s[n] = "-" /\ n < Len(s) /\ IsWs(s[n + 1]) THEN ""
          ELSE IF IsWs(s[n]) /\ AfterHyphen(s, n) THEN ""
          ELSE s[n]])

\* .replace(U+2019, "'").replace(U+2018, "'").replace(U+201C, '"').replace(U+201D, '"')
ReplaceQuotes(s) ==
  [n \in DOMAIN s |->
     IF s[n] \in {"RSQUO", "LSQUO"} THEN "'"
     ELSE IF s[n] \in {"LDQUO", "RDQUO"} THEN "\""
     ELSE s[n]]

\* re.sub(r'\s+', ' ', s): the first character of a whitespace run becomes
\* a space and the rest of the run goes
SubWsRuns(s) ==
  Kept([n \in DOMAIN s |->
          IF ~IsWs(s[n]) THEN s[n]
          ELSE IF n > 1 /\ IsWs(s[n - 1]) THEN ""
          ELSE " "])

\* a character of the class [a-z0-9 ]
IsKeyChar(c) ==
  \/ c = " "
  \/ IsDigit(c)
  \/ \E n \in DOMAIN LowerLetters : LowerLetters[n] = c

\* re.sub(r'[^a-z0-9 ]+', ' ', s): the first character of a run outside
\* [a-z0-9 ] becomes a space and the rest of the run goes
SubNonKeyRuns(s) ==
  Kept([n \in DOMAIN s |->
          IF IsKeyChar(s[n]) THEN s[n]
          ELSE IF n > 1 /\ ~IsKeyChar(s[n - 1]) THEN ""
          ELSE " "])

(***************************************************************************)
(* Text normalizer, tools/build_kcna_from_pdf.py                           *)
(***************************************************************************)
\* clean_line: the line without its terminator and without soft hyphens
clean_line(s) == SelectSeq(s, LAMBDA c : c # "SHY")

normalize_text(s) == Strip(SubWsRuns(ReplaceQuotes(SubHyphenWs(s))))

\* keyify with the characters outside [a-z0-9 ] deleted, none replaced
keyify_deleting(s) ==
  Strip(SubWsRuns(SelectSeq(Lower(normalize_text(s)), IsKeyChar)))

keyify(s) == Strip(SubWsRuns(SubNonKeyRuns(Lower(normalize_text(s)))))

(***************************************************************************)
(* Text normalizer, tools/fill_options_from_pdf.py                         *)
(***************************************************************************)
fill_normalize_text(s) == SubWsRuns(ReplaceQuotes(SubHyphenWs(Strip(s))))

\* the same reading of keyify in tools/fill_options_from_pdf.py
fill_keyify_deleting(s) ==
  Strip(SubWsRuns(SelectSeq(Lower(fill_normalize_text(s)), IsKeyChar)))

fill_keyify(s) == Strip(SubWsRuns(SubNonKeyRuns(Lower(fill_normalize_text(s)))))


(***************************************************************************)
(* Line classifier: the regular expressions of both tools, each as the     *)
(* match it computes.  A match is None or Some of its captured groups.     *)
(***************************************************************************)
W_Quizzes == <<"Q", "u", "i", "z", "z", "e", "s">>
W_Solutions == <<"S", "o", "l", "u", "t", "i", "o", "n", "s">>
W_Answer == <<"A", "n", "s", "w", "e", "r">>
W_Question == <<"Q", "u", "e", "s", "t", "i", "o", "n">>
W_Correct == <<"C", "o", "r", "r", "e", "c", "t">>
W_Explanation == <<"E", "x", "p", "l", "a", "n", "a", "t", "i", "o", "n">>
W_Domain == <<"D", "o", "m", "a", "i", "n">>
W_Competency == <<"C", "o", "m", "p", "e", "t", "e", "n", "c", "y">>
W_ReturnToQuestion == <<"R", "e", "t", "u", "r", "n", " ", "t", "o", " ", "Q", "u", "e", "s", "t", "i", "o", "n">>

OptionLetters == <<"A", "B", "C", "D", "E">>

\* ^\s*<d>\s+<word>\s*$   (re_quizzes with d = "1", re_solutions with d = "2")
MatchHeader(s, d, word) ==
  LET t == LStrip(s)
  IN  /\ t # <<>>
      /\ Head(t) = d
      /\ LeadWs(Tail(t)) > 0
      /\ Strip(Tail(t)) = word

re_quizzes(s) == MatchHeader(s, "1", W_Quizzes)

re_solutions(s) == MatchHeader(s, "2", W_Solutions)

\* ^\s*<d>\.(\d+)\s+(.*)   groups: idx, title
MatchSection(s, d) ==
  LET t  == LStrip(s)
      r  == Drop(t, 2)
      nd == LeadDigits(r)
      r2 == Drop(r, nd)
  IN  IF /\ StartsWith(t, <<d, ".">>)
         /\ nd > 0
         /\ LeadWs(r2) > 0
        THEN Some([idx |-> Take(r, nd), title |-> LStrip(r2)])
        ELSE None

re_sec(s) == MatchSection(s, "1")

re_sec_sol(s) == MatchSection(s, "2")

\* ^\s*(\d+)\.\s*(.*)   groups: the digits, the rest
re_q(s) ==
  LET t  == LStrip(s)
      nd == LeadDigits(t)
  IN  IF nd > 0 /\ Len(t) > nd /\ t[nd + 1] = "."
        THEN Some([num |-> Take(t, nd), rest |-> LStrip(Drop(t, nd + 1))])
        ELSE None

\* ^\s*([A-E])\.(.*)   groups: letter, rest
re_opt(s) ==
  LET t == LStrip(s)
  IN  IF /\ Len(t) >= 2
         /\ \E n \in DOMAIN OptionLetters : OptionLetters[n] = t[1]
         /\ t[2] = "."
        THEN Some([letter |-> t[1], rest |-> Drop(t, 2)])
        ELSE None

\* re.fullmatch(r'\s*\d+\s*', s): a page-number artifact
IsPageNumber(s) ==
  LET t == Strip(s)
  IN  t # <<>> /\ LeadDigits(t) = Len(t)

\* s.strip().startswith('Answer')
IsAnswerLine(s) == StartsWith(Strip(s), W_Answer)

\* ^\s*(\d+)\.\s*Question\s*(.*) with re.IGNORECASE   groups: the digits, the rest
re_q_sol(s) ==
  LET m == re_q(s)
  IN  IF /\ m # None
         /\ Len(m[1].rest) >= Len(W_Question)
         /\ Lower(Take(m[1].rest, Len(W_Question))) = Lower(W_Question)
        THEN Some([num  |-> m[1].num,
                   rest |-> LStrip(Drop(m[1].rest, Len(W_Question)))])
        ELSE None

\* Correct\s+Answer\s*:\s*([A-E]) with re.IGNORECASE, matched at the start of t
AnswerAt(t) ==
  LET r1 == Drop(t, Len(W_Correct))
      r2 == LStrip(r1)
      r3 == LStrip(Drop(r2, Len(W_Answer)))
      r4 == LStrip(Tail(r3))
  IN  IF /\ Len(t) >= Len(W_Correct)
         /\ Lower(Take(t, Len(W_Correct))) = Lower(W_Correct)
         /\ LeadWs(r1) > 0
         /\ Len(r2) >= Len(W_Answer)
         /\ Lower(Take(r2, Len(W_Answer))) = Lower(W_Answer)
         /\ r3 # <<>>
         /\ Head(r3) = ":"
         /\ r4 # <<>>
         /\ \E n \in DOMAIN OptionLetters : OptionLetters[n] = UpperChar(Head(r4))
        THEN Some(Head(r4))
        ELSE None

\* re_ans.search(s): the letter of the leftmost match
re_ans(s) ==
  LET at == {p \in 1..Len(s) : AnswerAt(Drop(s, p - 1)) # None}
  IN  IF at = {} THEN None
      ELSE AnswerAt(Drop(s, (CHOOSE p \in at : \A r \in at : p <= r) - 1))

\* ^\s*<word>\s*:\s*(.*)   group: the rest of the line
MatchLabel(s, word, ignorecase) ==
  LET t == LStrip(s)
      h == Take(t, Len(word))
      r == LStrip(Drop(t, Len(word)))
  IN  IF /\ Len(t) >= Len(word)
         /\ IF ignorecase THEN Lower(h) = Lower(word) ELSE h = word
         /\ r # <<>>
         /\ Head(r) = ":"
        THEN Some(LStrip(Tail(r)))
        ELSE None

re_expl(s) == MatchLabel(s, W_Explanation, TRUE)

re_domain(s) == MatchLabel(s, W_Domain, FALSE)

re_competency(s) == MatchLabel(s, W_Competency, FALSE)

\* s2.strip().startswith('Return to Question')
IsReturnLine(s) == StartsWith(Strip(s), W_ReturnToQuestion)


(***************************************************************************)
(* The characters of each string the model writes as a literal: the input  *)
(* lines and the expected texts.  Chars[s][n] is the n-th character of s.  *)
(***************************************************************************)
Chars ==
  "1 Quizzes" :>
    <<"1", " ", "Q", "u", "i", "z", "z", "e", "s">> @@
  "1.1 Intro" :>
    <<"1", ".", "1", " ", "I", "n", "t", "r", "o">> @@
  "1. What is a Pod?" :>
    <<"1", ".", " ", "W", "h", "a", "t", " ", "i", "s", " ", "a", " ", "P", "o", "d", "?">> @@
  "A. A container" :>
    <<"A", ".", " ", "A", " ", "c", "o", "n", "t", "a", "i", "n", "e", "r">> @@
  "B. A group of containers" :>
    <<"B", ".", " ", "A", " ", "g", "r", "o", "u", "p", " ", "o", "f", " ", "c", "o", "n", "t", "a", "i", "n", "e", "r", "s">> @@
  "Answer" :>
    <<"A", "n", "s", "w", "e", "r">> @@
  "2 Solutions" :>
    <<"2", " ", "S", "o", "l", "u", "t", "i", "o", "n", "s">> @@
  "2.1 Intro" :>
    <<"2", ".", "1", " ", "I", "n", "t", "r", "o">> @@
  "1. Question What is a Pod?" :>
    <<"1", ".", " ", "Q", "u", "e", "s", "t", "i", "o", "n", " ", "W", "h", "a", "t", " ", "i", "s", " ", "a", " ", "P", "o", "d", "?">> @@
  "Correct Answer: B" :>
    <<"C", "o", "r", "r", "e", "c", "t", " ", "A", "n", "s", "w", "e", "r", ":", " ", "B">> @@
  "Explanation: It groups containers." :>
    <<"E", "x", "p", "l", "a", "n", "a", "t", "i", "o", "n", ":", " ", "I", "t", " ", "g", "r", "o", "u", "p", "s", " ", "c", "o", "n", "t", "a", "i", "n", "e", "r", "s", ".">> @@
  "Domain: Fundamentals" :>
    <<"D", "o", "m", "a", "i", "n", ":", " ", "F", "u", "n", "d", "a", "m", "e", "n", "t", "a", "l", "s">> @@
  "What is a Pod?" :>
    <<"W", "h", "a", "t", " ", "i", "s", " ", "a", " ", "P", "o", "d", "?">> @@
  "E. Neither" :>
    <<"E", ".", " ", "N", "e", "i", "t", "h", "e", "r">> @@
  "2.2 Other" :>
    <<"2", ".", "2", " ", "O", "t", "h", "e", "r">> @@
  "2. Question Other?" :>
    <<"2", ".", " ", "Q", "u", "e", "s", "t", "i", "o", "n", " ", "O", "t", "h", "e", "r", "?">> @@
  "Correct Answer: E" :>
    <<"C", "o", "r", "r", "e", "c", "t", " ", "A", "n", "s", "w", "e", "r", ":", " ", "E">> @@
  "correct answer: b" :>
    <<"c", "o", "r", "r", "e", "c", "t", " ", "a", "n", "s", "w", "e", "r", ":", " ", "b">> @@
  "D. di-" :>
    <<"D", ".", " ", "d", "i", "-">> @@
  "A." :>
    <<"A", ".">> @@
  " 7 " :>
    <<" ", "7", " ">> @@
  "" :>
    <<>> @@
  "A container" :>
    <<"A", " ", "c", "o", "n", "t", "a", "i", "n", "e", "r">> @@
  "A group of containers" :>
    <<"A", " ", "g", "r", "o", "u", "p", " ", "o", "f", " ", "c", "o", "n", "t", "a", "i", "n", "e", "r", "s">> @@
  "It groups containers." :>
    <<"I", "t", " ", "g", "r", "o", "u", "p", "s", " ", "c", "o", "n", "t", "a", "i", "n", "e", "r", "s", ".">> @@
  "Fundamentals" :>
    <<"F", "u", "n", "d", "a", "m", "e", "n", "t", "a", "l", "s">> @@
  "Intro" :>
    <<"I", "n", "t", "r", "o">> @@
  "1. What's a Pod?" :>
    <<"1", ".", " ", "W", "h", "a", "t", "'", "s", " ", "a", " ", "P", "o", "d", "?">> @@
  "2. whats a POD" :>
    <<"2", ".", " ", "w", "h", "a", "t", "s", " ", "a", " ", "P", "O", "D">> @@
  "Whats a Pod" :>
    <<"W", "h", "a", "t", "s", " ", "a", " ", "P", "o", "d">> @@
  "WHAT'S A POD" :>
    <<"W", "H", "A", "T", "'", "S", " ", "A", " ", "P", "O", "D">> @@
  "what is a pod" :>
    <<"w", "h", "a", "t", " ", "i", "s", " ", "a", " ", "p", "o", "d">> @@
  "old" :>
    <<"o", "l", "d">> @@
  "<4301 x 1>. What?" :>
    [n \in 1..(int_max_str_digits + 1) |-> "1"] \o <<".", " ", "W", "h", "a", "t", "?">> @@
  "<4301 x 1>. Question What?" :>
    [n \in 1..(int_max_str_digits + 1) |-> "1"] \o <<".", " ", "Q", "u", "e", "s", "t", "i", "o", "n", " ", "W", "h", "a", "t", "?">> @@
  "0. What is a Pod?" :>
    <<"0", ".", " ", "W", "h", "a", "t", " ", "i", "s", " ", "a", " ", "P", "o", "d", "?">> @@
  "1. di-" :>
    <<"1", ".", " ", "d", "i", "-">> @@
  "1. What" :>
    <<"1", ".", " ", "W", "h", "a", "t">> @@
  "rectly" :>
    <<"r", "e", "c", "t", "l", "y">> @@
  "di-" :>
    <<"d", "i", "-">> @@
  "-" :>
    <<"-">> @@
  "1. Question di-" :>
    <<"1", ".", " ", "Q", "u", "e", "s", "t", "i", "o", "n", " ", "d", "i", "-">> @@
  "1. Question What" :>
    <<"1", ".", " ", "Q", "u", "e", "s", "t", "i", "o", "n", " ", "W", "h", "a", "t">> @@
  "directly" :>
    <<"d", "i", "r", "e", "c", "t", "l", "y">> @@
  "Domain: Basics" :>
    <<"D", "o", "m", "a", "i", "n", ":", " ", "B", "a", "s", "i", "c", "s">> @@
  "Competency: Pods" :>
    <<"C", "o", "m", "p", "e", "t", "e", "n", "c", "y", ":", " ", "P", "o", "d", "s">> @@
  "Return to Question" :>
    <<"R", "e", "t", "u", "r", "n", " ", "t", "o", " ", "Q", "u", "e", "s", "t", "i", "o", "n">> @@
  "Thanks for reading" :>
    <<"T", "h", "a", "n", "k", "s", " ", "f", "o", "r", " ", "r", "e", "a", "d", "i", "n", "g">> @@
  "Basics" :>
    <<"B", "a", "s", "i", "c", "s">> @@
  "Pods" :>
    <<"P", "o", "d", "s">> @@
  "It groups containers. Correct Answer: E" :>
    <<"I", "t", " ", "g", "r", "o", "u", "p", "s", " ", "c", "o", "n", "t", "a", "i", "n", "e", "r", "s", ".", " ", "C", "o", "r", "r", "e", "c", "t", " ", "A", "n", "s", "w", "e", "r", ":", " ", "E">> @@
  "It groups containers. Thanks for reading" :>
    <<"I", "t", " ", "g", "r", "o", "u", "p", "s", " ", "c", "o", "n", "t", "a", "i", "n", "e", "r", "s", ".", " ", "T", "h", "a", "n", "k", "s", " ", "f", "o", "r", " ", "r", "e", "a", "d", "i", "n", "g">> @@
  "What" :>
    <<"W", "h", "a", "t">> @@
  "A container" :>
    <<"A", " ", "c", "o", "n", "t", "a", "i", "n", "e", "r">> @@
  "1.2 Other" :>
    <<"1", ".", "2", " ", "O", "t", "h", "e", "r">> @@
  "1.1 Again" :>
    <<"1", ".", "1", " ", "A", "g", "a", "i", "n">> @@
  "Again" :>
    <<"A", "g", "a", "i", "n">> @@
  "Other" :>
    <<"O", "t", "h", "e", "r">> @@
  "1.1" :>
    <<"1", ".", "1">> @@
  "1.2" :>
    <<"1", ".", "2">> @@
  "2.2" :>
    <<"2", ".", "2">>

(***************************************************************************)
(* Pipeline A, parse_quizzes: the loops inside one question                *)
(***************************************************************************)
\* lines[j] of the code (j counts from 0), without its line terminator
LineAt(ls, j) == Chars[ls[j + 1]]

\* The question-text loop: from line j on, append the stripped lines to qbuf
\* until an option start, a question start or an Answer line.
RECURSIVE ScanQText(_, _, _)
ScanQText(ls, j, qbuf) ==
  IF j >= Len(ls) THEN [j |-> j, qbuf |-> qbuf]
  ELSE LET s == clean_line(LineAt(ls, j))
       IN  IF re_opt(s) # None \/ re_q(s) # None \/ IsAnswerLine(s)
             THEN [j |-> j, qbuf |-> qbuf]
           ELSE IF IsPageNumber(s)
             THEN ScanQText(ls, j + 1, qbuf)
           ELSE ScanQText(ls, j + 1, Append(qbuf, Strip(s)))

\* a join of the fragments that keeps the hyphen a fragment ends with
RECURSIVE JoinKeepingHyphen(_, _)
JoinKeepingHyphen(qbuf, qtext) ==
  IF qbuf = <<>> THEN qtext
  ELSE LET frag == Strip(Head(qbuf))
       IN  IF frag = <<>> THEN JoinKeepingHyphen(Tail(qbuf), qtext)
           ELSE IF qtext # <<>> /\ ~EndsWith(qtext, <<"-">>)
             THEN JoinKeepingHyphen(Tail(qbuf), qtext \o <<" ">> \o frag)
           ELSE JoinKeepingHyphen(Tail(qbuf), qtext \o frag)

\* The hyphen-aware join of the buffered fragments (before normalize_text)
RECURSIVE JoinFragments(_, _)
JoinFragments(qbuf, qtext) ==
  IF qbuf = <<>> THEN qtext
  ELSE LET frag == Strip(Head(qbuf))
       IN  IF frag = <<>> THEN JoinFragments(Tail(qbuf), qtext)
           ELSE IF EndsWith(qtext, <<"-">>)
             THEN JoinFragments(Tail(qbuf), Take(qtext, Len(qtext) - 1) \o frag)
           ELSE IF qtext # <<>>
             THEN JoinFragments(Tail(qbuf), qtext \o <<" ">> \o frag)
           ELSE JoinFragments(Tail(qbuf), frag)

\* f[x] = v for a dict whose order does not matter
MapPut(f, x, v) == [y \in DOMAIN f \cup {x} |-> IF y = x THEN v ELSE f[y]]

\* The flush of the current letter's buffer
FlushOpt(opts, cur_letter, cur_buf) ==
  IF cur_letter # None
    THEN MapPut(opts, cur_letter[1], normalize_text(Join(<<" ">>, cur_buf)))
    ELSE opts

\* The option loop: from line k on, until a question start or an Answer line;
\* the last letter's buffer is flushed after the loop.
RECURSIVE ScanOptions(_, _, _, _, _)
ScanOptions(ls, k, opts, cur_letter, cur_buf) ==
  IF k >= Len(ls)
    THEN [k |-> k, opts |-> FlushOpt(opts, cur_letter, cur_buf)]
  ELSE LET s  == clean_line(LineAt(ls, k))
           mo == re_opt(s)
       IN  IF re_q(s) # None \/ IsAnswerLine(s)
             THEN [k |-> k, opts |-> FlushOpt(opts, cur_letter, cur_buf)]
           ELSE IF mo # None
             THEN ScanOptions(ls, k + 1, FlushOpt(opts, cur_letter, cur_buf),
                              Some(mo[1].letter), <<Strip(mo[1].rest)>>)
           ELSE IF cur_letter # None /\ ~IsPageNumber(s)
             THEN ScanOptions(ls, k + 1, opts, cur_letter,
                              Append(cur_buf, Strip(s)))
           ELSE ScanOptions(ls, k + 1, opts, cur_letter, cur_buf)

\* [opts.get(x) for x in 'ABCDE'] with a placeholder kept for each letter
OptionsWithPlaceholders(opts) ==
  [n \in DOMAIN OptionLetters |->
     IF OptionLetters[n] \in DOMAIN opts THEN opts[OptionLetters[n]] ELSE <<>>]

\* [opts.get(x) for x in 'ABCDE'] without the None and the empty entries
OrderedOptions(opts) ==
  LET F[n \in 0..Len(OptionLetters)] ==
        IF n = 0 THEN <<>>
        ELSE IF OptionLetters[n] \in DOMAIN opts /\ opts[OptionLetters[n]] # <<>>
          THEN Append(F[n - 1], opts[OptionLetters[n]])
          ELSE F[n - 1]
  IN  F[Len(OptionLetters)]

\* The question record built at a question-start line i whose match is m,
\* and the line index k the scan resumes at.
ParseQuestion(ls, i, m) ==
  LET qt == ScanQText(ls, i + 1, <<Strip(m.rest)>>)
      op == ScanOptions(ls, qt.j, <<>>, None, <<>>)
  IN  [k |-> op.k,
       q |-> [number   |-> ToInt(m.num),
              question |-> normalize_text(JoinFragments(qt.qbuf, <<>>)),
              options  |-> OrderedOptions(op.opts)]]


(***************************************************************************)
(* Pipeline A, parse_solutions: the loops inside one question              *)
(***************************************************************************)
\* a question-text loop that takes page numbers for text
RECURSIVE ScanSolQTextWithPages(_, _, _)
ScanSolQTextWithPages(ls, j, qbuf) ==
  IF j >= Len(ls) THEN [j |-> j, qbuf |-> qbuf]
  ELSE LET s == clean_line(LineAt(ls, j))
       IN  IF re_ans(s) # None \/ re_sec_sol(s) # None \/ re_q_sol(s) # None
             THEN [j |-> j, qbuf |-> qbuf]
           ELSE ScanSolQTextWithPages(ls, j + 1, Append(qbuf, Strip(s)))

\* The question-text loop: until a Correct Answer line, a section header or
\* a question start.
RECURSIVE ScanSolQText(_, _, _)
ScanSolQText(ls, j, qbuf) ==
  IF j >= Len(ls) THEN [j |-> j, qbuf |-> qbuf]
  ELSE LET s == clean_line(LineAt(ls, j))
       IN  IF re_ans(s) # None \/ re_sec_sol(s) # None \/ re_q_sol(s) # None
             THEN [j |-> j, qbuf |-> qbuf]
           ELSE IF IsPageNumber(s)
             THEN ScanSolQText(ls, j + 1, qbuf)
           ELSE ScanSolQText(ls, j + 1, Append(qbuf, Strip(s)))

\* an explanation loop that a Domain line ends
RECURSIVE ScanExplanationUntilDomain(_, _, _)
ScanExplanationUntilDomain(ls, k, r) ==
  IF k >= Len(ls) THEN [r EXCEPT !.k = k]
  ELSE LET s2 == clean_line(LineAt(ls, k))
           md == re_domain(s2)
           mc == re_competency(s2)
       IN  IF re_sec_sol(s2) # None \/ re_q_sol(s2) # None
             THEN [r EXCEPT !.k = k]
           ELSE IF md # None
             THEN [r EXCEPT !.k = k + 1, !.domain = Some(normalize_text(md[1]))]
           ELSE IF mc # None
             THEN ScanExplanationUntilDomain(ls, k + 1,
                    [r EXCEPT !.competency = Some(normalize_text(mc[1]))])
           ELSE IF ~IsPageNumber(s2) /\ ~IsReturnLine(s2)
             THEN ScanExplanationUntilDomain(ls, k + 1,
                    [r EXCEPT !.expl_buf = Append(@, Strip(s2))])
           ELSE ScanExplanationUntilDomain(ls, k + 1, r)

\* The explanation loop, entered after an Explanation line: until a section
\* header or a question start.
RECURSIVE ScanExplanation(_, _, _)
ScanExplanation(ls, k, r) ==
  IF k >= Len(ls) THEN [r EXCEPT !.k = k]
  ELSE LET s2 == clean_line(LineAt(ls, k))
           md == re_domain(s2)
           mc == re_competency(s2)
       IN  IF re_sec_sol(s2) # None \/ re_q_sol(s2) # None
             THEN [r EXCEPT !.k = k]
           ELSE IF md # None
             THEN ScanExplanation(ls, k + 1,
                    [r EXCEPT !.domain = Some(normalize_text(md[1]))])
           ELSE IF mc # None
             THEN ScanExplanation(ls, k + 1,
                    [r EXCEPT !.competency = Some(normalize_text(mc[1]))])
           ELSE IF ~IsPageNumber(s2) /\ ~IsReturnLine(s2)
             THEN ScanExplanation(ls, k + 1,
                    [r EXCEPT !.expl_buf = Append(@, Strip(s2))])
           ELSE ScanExplanation(ls, k + 1, r)

\* The answer loop: from line k on, until a section header or a question
\* start, or through the explanation loop once an Explanation line is met.
RECURSIVE ScanAnswer(_, _, _)
ScanAnswer(ls, k, r) ==
  IF k >= Len(ls) THEN [r EXCEPT !.k = k]
  ELSE LET s   == clean_line(LineAt(ls, k))
           maa == re_ans(s)
           mex == re_expl(s)
       IN  IF re_sec_sol(s) # None \/ re_q_sol(s) # None
             THEN [r EXCEPT !.k = k]
           ELSE IF maa # None
             THEN ScanAnswer(ls, k + 1, [r EXCEPT !.ans_letter = Some(<<maa[1]>>)])
           ELSE IF mex # None
             THEN ScanExplanation(ls, k + 1,
                    [r EXCEPT !.expl_buf = Append(@, Strip(mex[1]))])
           ELSE ScanAnswer(ls, k + 1, r)

\* The solution record built at a question line i whose match is m, and the
\* line index k the scan resumes at.
ParseSolution(ls, i, m) ==
  LET qt == ScanSolQText(ls, i + 1, <<Strip(m.rest)>>)
      r  == ScanAnswer(ls, qt.j,
                       [k |-> qt.j, ans_letter |-> None, expl_buf |-> <<>>,
                        domain |-> None, competency |-> None])
  IN  [k   |-> r.k,
       num |-> ToInt(m.num),
       rec |-> [question    |-> normalize_text(JoinFragments(qt.qbuf, <<>>)),
                answer      |-> r.ans_letter,
                explanation |-> normalize_text(Join(<<" ">>, r.expl_buf)),
                domain      |-> r.domain,
                competency  |-> r.competency]]

(***************************************************************************)
(* Dictionaries.  A dict whose order matters (the quiz sections) is a      *)
(* sequence of entries with distinct keys; d[key] = v replaces the entry   *)
(* of an existing key in place and appends a new key.                      *)
(***************************************************************************)
HasKey(d, key) == \E n \in DOMAIN d : d[n].key = key

KeyPos(d, key) == CHOOSE n \in DOMAIN d : d[n].key = key

\* a dict in which a key that is set again moves to the end
DictPutAtEnd(d, e) == Append(SelectSeq(d, LAMBDA x : x.key # e.key), e)

DictPut(d, e) ==
  IF HasKey(d, e.key) THEN [d EXCEPT ![KeyPos(d, e.key)] = e] ELSE Append(d, e)

\* f'<d>.{idx}'
SectionKey(d, idx) == <<d, ".">> \o idx


(***************************************************************************)
(* Pipeline B, parse_quizzes: the loops inside one question                *)
(***************************************************************************)
\* The question-text loop: until an option start or a question start.
RECURSIVE fill_ScanQText(_, _, _)
fill_ScanQText(ls, j, qbuf) ==
  IF j >= Len(ls) THEN [j |-> j, qbuf |-> qbuf]
  ELSE LET nxt == LineAt(ls, j)
       IN  IF re_opt(nxt) # None \/ re_q(nxt) # None
             THEN [j |-> j, qbuf |-> qbuf]
           ELSE IF IsPageNumber(nxt)
             THEN fill_ScanQText(ls, j + 1, qbuf)
           ELSE fill_ScanQText(ls, j + 1, Append(qbuf, Strip(nxt)))

fill_FlushOpt(opts, cur_letter, cur_buf) ==
  IF cur_letter # None
    THEN MapPut(opts, cur_letter[1], fill_normalize_text(Join(<<" ">>, cur_buf)))
    ELSE opts

\* The option loop: until the solutions header or a question start (neither
\* consumed) or through an Answer line (consumed).
RECURSIVE fill_ScanOptions(_, _, _, _, _)
fill_ScanOptions(ls, k, opts, cur_letter, cur_buf) ==
  IF k >= Len(ls)
    THEN [k |-> k, opts |-> fill_FlushOpt(opts, cur_letter, cur_buf)]
  ELSE LET s  == LineAt(ls, k)
           mo == re_opt(s)
       IN  IF re_solutions(s) \/ re_q(s) # None
             THEN [k |-> k, opts |-> fill_FlushOpt(opts, cur_letter, cur_buf)]
           ELSE IF IsAnswerLine(s)
             THEN [k |-> k + 1, opts |-> fill_FlushOpt(opts, cur_letter, cur_buf)]
           ELSE IF mo # None
             THEN fill_ScanOptions(ls, k + 1,
                                   fill_FlushOpt(opts, cur_letter, cur_buf),
                                   Some(mo[1].letter), <<Strip(mo[1].rest)>>)
           ELSE IF cur_letter # None /\ ~IsPageNumber(s)
             THEN fill_ScanOptions(ls, k + 1, opts, cur_letter,
                                   Append(cur_buf, Strip(s)))
           ELSE fill_ScanOptions(ls, k + 1, opts, cur_letter, cur_buf)

\* The question text and ordered options parsed at a question-start line i
\* whose match is m, and the line index k the scan resumes at.
fill_ParseQuestion(ls, i, m) ==
  LET qt == fill_ScanQText(ls, i + 1, <<RStrip(m.rest)>>)
      op == fill_ScanOptions(ls, qt.j, <<>>, None, <<>>)
  IN  [k       |-> op.k,
       qtext   |-> fill_normalize_text(JoinFragments(qt.qbuf, <<>>)),
       ordered |-> OrderedOptions(op.opts)]

(***************************************************************************)
(* letter_to_index of both tools                                           *)
(***************************************************************************)
\* m.get(key) for m = {'A':0,'B':1,'C':2,'D':3,'E':4}
LetterMapGet(u) ==
  IF Len(u) = 1 /\ \E n \in DOMAIN OptionLetters : OptionLetters[n] = u[1]
    THEN Some((CHOOSE n \in DOMAIN OptionLetters : OptionLetters[n] = u[1]) - 1)
    ELSE None

\* a lookup of the letter as it is given, without strip() and upper()
letter_to_index_exact(ch) ==
  IF ch = None THEN None ELSE LetterMapGet(ch[1])

\* merge.letter_to_index; ch is None or Some text
letter_to_index(ch) ==
  IF ch = None THEN None ELSE LetterMapGet(Upper(Strip(ch[1])))

\* fill_json.letter_to_index; ch is None or Some text
fill_letter_to_index(ch) ==
  IF ch = None THEN None ELSE LetterMapGet(Upper(Strip(ch[1])))


(***************************************************************************)
(* Pipeline A, merge                                                       *)
(***************************************************************************)
\* solutions.get(sol_key, {})
SolutionsGet(sols, sol_key) ==
  IF HasKey(sols, sol_key) THEN sols[KeyPos(sols, sol_key)].entries ELSE <<>>

\* sol.get(num)
EntryGet(sol, num) == IF num \in DOMAIN sol THEN Some(sol[num]) ELSE None

\* the quiz section key kept as the solution section key
QuizKeyKept(qkey) == qkey

\* k.split('.')[1] of a quiz section key '1.<idx>', then f'2.{idx}'
SolKeyOf(qkey) == SectionKey("2", Drop(qkey, 2))

\* v or ''
OrEmpty(v) == IF v = None THEN <<>> ELSE v[1]

\* The evaluation of the record literal aq raises AttributeError when s is
\* None: 'domain': s.get('domain') or '' has no guard.
QuestionRaises(q, sol) == EntryGet(sol, q.number) = None

\* The record aq of a quiz question q whose solution entry exists
MergeQuestion(q, sol) ==
  LET s == EntryGet(sol, q.number)[1]
  IN  [number      |-> q.number,
       question    |-> q.question,
       options     |-> q.options,
       answer      |-> s.answer,
       answerIndex |-> letter_to_index(s.answer),
       explanation |-> s.explanation,
       domain      |-> OrEmpty(s.domain),
       competency  |-> OrEmpty(s.competency)]

\* matched += 1
\* a count of the records with options, with or without an answer
HasOptions(aq) == aq.options # <<>>

IsMatched(aq) == aq.options # <<>> /\ aq.answerIndex # None

(***************************************************************************)
(* Pipeline B, fill_json.process_question                                  *)
(***************************************************************************)
\* options_map.get(k)
OptionMapGet(om, k) == IF k \in DOMAIN om THEN Some(om[k]) ELSE None

\* an option map in which the first question parsed for a key stands
StoreFirstOptions(om, key, ordered) ==
  IF ordered # <<>> /\ key \notin DOMAIN om THEN MapPut(om, key, ordered) ELSE om

\* if ordered: option_map[keyify(qtext)] = ordered
StoreOptions(om, key, ordered) ==
  IF ordered # <<>> THEN MapPut(om, key, ordered) ELSE om

\* process_question filling the options only where the question has none
process_question_gaps_only(q, k, om) ==
  LET opts == OptionMapGet(om, k)
  IN  IF opts # None /\ opts[1] # <<>> /\ (q.options = None \/ q.options = Some(<<>>))
        THEN [q EXCEPT !.options = opts] ELSE q

\* a process_question that derives the answer index also when the question
\* has one
process_question_any_index(q, k, om) ==
  LET opts == OptionMapGet(om, k)
      q1   == IF opts # None /\ opts[1] # <<>>
                THEN [q EXCEPT !.options = opts] ELSE q
      ai   == fill_letter_to_index(q.answer)
  IN  IF ai # None THEN [q1 EXCEPT !.answerIndex = ai] ELSE q1

\* The question q after process_question, k being keyify(qtext) for
\* qtext = q.get('question') or ''.  q.question, q.options and
\* q.answer are None when the key is absent or null; q.answerIndex is None
\* unless it is an integer.
process_question(q, k, om) ==
  LET opts == OptionMapGet(om, k)
      q1   == IF opts # None /\ opts[1] # <<>>
                THEN [q EXCEPT !.options = opts] ELSE q
      ai   == fill_letter_to_index(q.answer)
  IN  IF q1.answerIndex = None /\ ai # None
        THEN [q1 EXCEPT !.answerIndex = ai] ELSE q1

\* filled += 1
IsFilled(k, om) ==
  LET opts == OptionMapGet(om, k)
  IN  opts # None /\ opts[1] # <<>>


(***************************************************************************)
(* Inputs                                                                  *)
(***************************************************************************)
\* the scenario of the specification, section 8
Scenario ==
  <<"1 Quizzes", "1.1 Intro", "1. What is a Pod?", "A. A container",
    "B. A group of containers", "Answer", "2 Solutions", "2.1 Intro",
    "1. Question What is a Pod?", "Correct Answer: B",
    "Explanation: It groups containers.", "Domain: Fundamentals">>

\* the sequences over S of length at most n
Seqs(S, n) == UNION {[1..k -> S] : k \in 0..n}

MaxOpts == 2
MaxBody == 3
MaxTextLen == 3

\* inputs every specification starts from: the scenario, the empty file, a
\* file without either header, files with the quizzes header only and with
\* the solutions header only, files with a question number of one digit
\* more than int() converts, and a file with the question number 0
BaseDocs ==
  {Scenario,
   <<>>,
   <<"1. What is a Pod?", "A. A container">>,
   <<"1 Quizzes", "1.1 Intro", "1. What is a Pod?", "A. A container">>,
   <<"2 Solutions", "2.1 Intro", "1. Question What is a Pod?">>,
   <<"1 Quizzes", "A. A container", "2 Solutions", "Answer", "2.1 Intro",
     "1. Question What is a Pod?">>,
   <<"1 Quizzes", "1.1 Intro", "<4301 x 1>. What?">>,
   <<"2 Solutions", "2.1 Intro", "<4301 x 1>. Question What?">>,
   <<"1 Quizzes", "1.1 Intro", "0. What is a Pod?", "A. A container">>}

\* the scenario with its option lines, its solution section, its solution
\* question and its answer line varied
OptLines == {"A. A container", "B. A group of containers", "E. Neither"}

MergeDocs ==
  {<<"1 Quizzes", "1.1 Intro", "1. What is a Pod?">> \o opts
     \o <<"Answer", "2 Solutions", sec, sq>> \o ans
     \o <<"Explanation: It groups containers.", "Domain: Fundamentals">> :
     opts \in Seqs(OptLines, MaxOpts),
     sec \in {"2.1 Intro", "2.2 Other"},
     sq \in {"1. Question What is a Pod?", "2. Question Other?"},
     ans \in {<<>>, <<"Correct Answer: B">>, <<"Correct Answer: E">>,
              <<"correct answer: b">>}}

\* a quizzes region of free lines
QuizLines ==
  {"1.1 Intro", "1. What is a Pod?", "A. A container",
   "B. A group of containers", "D. di-", "A.", "Answer", "2 Solutions",
   " 7 ", ""}

QuizDocs ==
  {<<"1 Quizzes", "1.1 Intro">> \o body : body \in Seqs(QuizLines, MaxBody)}

\* a dataset question: the values of q.get('question'), q.get('options'),
\* q.get('answer') or q.get('Answer'), and q.get('answerIndex') when it is
\* an integer
Question(text, options, answer, answerIndex) ==
  [question |-> text, options |-> options, answer |-> answer,
   answerIndex |-> answerIndex]

\* the arguments of the text functions: the texts over a few characters of
\* each class the functions tell apart
KeyifyChars == {"a", "B", "1", " ", "\t", "-", "'", "RSQUO"}

LetterChars == {"A", "B", "C", "D", "E", "F", "e", " "}

TextArgs ==
  {[fn |-> "keyify", v |-> Some(s)] : s \in Seqs(KeyifyChars, MaxTextLen)}
    \cup {[fn |-> "letter_to_index", v |-> Some(s)] :
            s \in Seqs(LetterChars, MaxTextLen)}
    \cup {[fn |-> "letter_to_index", v |-> None]}

Dataset0 ==
  <<Question(Some(Chars["What is a Pod?"]), None, Some(<<"E">>), None)>>

\* quiz questions whose texts differ in case and punctuation, each followed
\* by one option line
FillQLines == {"1. What's a Pod?", "2. whats a POD", "1. What is a Pod?"}

FillOptLines == {"A. A container", "B. A group of containers", "A."}

FillDocs ==
  {<<"1 Quizzes", "1.1 Intro", q1, o1, q2, o2>> :
     q1 \in FillQLines, o1 \in FillOptLines,
     q2 \in FillQLines, o2 \in FillOptLines}

\* a quiz question and a solution question, with the same lines after the
\* first line of each question text, after the option and after the
\* Explanation line: fragments with and without a trailing hyphen, a lone
\* hyphen, an empty line and a page number; and one document with an empty
\* line and a page number between di- and rectly
MaxFrags == 2

FragLines == {"rectly", "di-", "-", "", " 7 "}

JoinDoc(q, body) ==
  <<"1 Quizzes", "1.1 Intro", q[1]>> \o body
    \o <<"A. A container">> \o body
    \o <<"Answer", "2 Solutions", "2.1 Intro", q[2]>> \o body
    \o <<"Correct Answer: B", "Explanation: It groups containers.">> \o body

JoinDocs ==
  {JoinDoc(q, body) :
     q \in {<<"1. di-", "1. Question di-">>, <<"1. What", "1. Question What">>},
     body \in Seqs(FragLines, MaxFrags)}
    \cup {JoinDoc(<<"1. di-", "1. Question di-">>, <<"", " 7 ", "rectly">>)}

\* a solution question with or without an answer line, then its Explanation
\* line, then lines of every kind the explanation loop tells apart; and one
\* document with two Domain lines and boilerplate after them
MaxExpl == 2

SolPre ==
  {<<>>, <<"Correct Answer: B">>,
   <<" 7 ", "Correct Answer: B", "Thanks for reading">>}

ExplLines ==
  {"Correct Answer: E", "Domain: Fundamentals", "Domain: Basics",
   "Competency: Pods", "Return to Question", " 7 ", "Thanks for reading",
   "2. Question Other?"}

SolDocs ==
  {<<"2 Solutions", "2.1 Intro", "1. Question What is a Pod?">> \o pre
     \o <<"Explanation: It groups containers.">> \o post :
     pre \in SolPre, post \in Seqs(ExplLines, MaxExpl)}
    \cup {<<"2 Solutions", "2.1 Intro", "1. Question What is a Pod?",
             "Correct Answer: B", "Explanation: It groups containers.",
             "Domain: Fundamentals", "Domain: Basics", "Thanks for reading">>}

\* quiz regions of section headers, one of them with the key of another, and
\* question lines
MaxSecLines == 4

SecLines == {"1.1 Intro", "1.2 Other", "1.1 Again", "1. What is a Pod?"}

SecDocs == {<<"1 Quizzes">> \o body : body \in Seqs(SecLines, MaxSecLines)}

\* datasets of one question, with and without options and an answer
Datasets ==
  {<<Question(Some(Chars[t]), o, a, None)>> :
     t \in {"Whats a Pod", "WHAT'S A POD", "what is a pod"},
     o \in {None, Some(<<Chars["old"]>>)},
     a \in {None, Some(<<"B">>)}}

\* a quiz question with its option line, and datasets of two questions of
\* that text, with and without options, an answer that is a letter of the
\* map or is not, and an answer index
FrameDocs ==
  {<<"1 Quizzes", "1.1 Intro", "1. What is a Pod?", o>> : o \in FillOptLines}

FrameQuestions ==
  {Question(Some(Chars[t]), o, a, ai) :
     t \in {"what is a pod", "Whats a Pod"},
     o \in {None, Some(<<Chars["old"]>>)},
     a \in {None, Some(<<"B">>), Some(<<"F">>)},
     ai \in {None, Some(3)}}

FrameDatasets ==
  {<<q1, q2>> : q1 \in FrameQuestions,
                q2 \in {q \in FrameQuestions : q.options = None}}

(***************************************************************************)
(* State                                                                   *)
(***************************************************************************)
VARIABLES
  lines,        \* the text file, read once by each tool
  pc,           \* the function that is running
  i,            \* the line index of the running scanner
  in_quizzes,   \* parse_quizzes (either tool): the quizzes header was seen
  in_solutions, \* parse_solutions: the solutions header was seen
  cur_key,      \* the current section key of the running scanner of tool A
  quizzes,      \* tool A: the sections of parse_quizzes, in insertion order
  solutions,    \* tool A: the sections of parse_solutions
  msec,         \* merge: position in quizzes.items()
  out_qs,       \* merge: the records of the section being merged
  out_sections, \* merge: the sections merged so far
  total,        \* merge: questions seen
  matched,      \* merge: questions with options and an answer index
  build,        \* tool A: "running", "written" or "raised"
  option_map,   \* tool B: normalized question key -> ordered options
  target,       \* tool B: the questions of the dataset, loaded by fill_json
  pos,          \* tool B: questions processed (its counter total)
  filled,       \* tool B: questions whose options were overwritten
  fill,         \* tool B: "running", "written" or "fatal"
  parsed,       \* tool B, history: the questions parse_quizzes has parsed,
                \* each with its text, its ordered options and its lines
  arg,          \* a call of a text function: the function and its argument
  ret           \* the value the call returned, for each tool's definition

vars ==
  <<lines, pc, i, in_quizzes, in_solutions, cur_key, quizzes, solutions,
    msec, out_qs, out_sections, total, matched, build, option_map, target,
    pos, filled, fill, parsed, arg, ret>>

scanA == <<in_quizzes, in_solutions, cur_key, quizzes, solutions>>

mergeA == <<msec, out_qs, out_sections, total, matched, build>>

toolB == <<option_map, target, pos, filled, fill, parsed>>

call == <<arg, ret>>

\* the locals of every function before it runs
Fresh ==
  /\ i = 0
  /\ in_quizzes = FALSE
  /\ in_solutions = FALSE
  /\ cur_key = None
  /\ quizzes = <<>>
  /\ solutions = <<>>
  /\ msec = 1
  /\ out_qs = <<>>
  /\ out_sections = <<>>
  /\ total = 0
  /\ matched = 0
  /\ build = "running"
  /\ option_map = <<>>
  /\ pos = 0
  /\ filled = 0
  /\ fill = "running"
  /\ parsed = <<>>
  /\ ret = None

\* tool A, then tool B, run on a text file and a dataset
InitWith(docs, datasets) ==
  /\ lines \in docs
  /\ target \in datasets
  /\ pc = "parse_quizzes"
  /\ arg = None
  /\ Fresh

Init == InitWith(MergeDocs \cup BaseDocs, {Dataset0})

InitQuiz == InitWith(QuizDocs \cup BaseDocs, {Dataset0})

InitFill == InitWith(FillDocs \cup BaseDocs, Datasets)

InitJoin == InitWith(JoinDocs \cup BaseDocs, {Dataset0})

InitSol == InitWith(SolDocs \cup BaseDocs, {Dataset0})

InitSec == InitWith(SecDocs \cup BaseDocs, {Dataset0})

InitFrame == InitWith(FrameDocs, FrameDatasets) \/ InitWith(BaseDocs, {Dataset0})

\* raw = clean_line(lines[i])
raw == clean_line(LineAt(lines, i))

(***************************************************************************)
(* Tool A, parse_quizzes: one action per iteration of the outer loop       *)
(***************************************************************************)
\* not in_quizzes: look for the quizzes header
QuizSkip ==
  /\ pc = "parse_quizzes" /\ i < Len(lines)
  /\ ~in_quizzes
  /\ in_quizzes' = re_quizzes(raw)
  /\ i' = i + 1
  /\ UNCHANGED <<lines, pc, in_solutions, cur_key, quizzes, solutions, mergeA, toolB, call>>

\* the loop ends at the solutions header or at the end of the lines;
\* main then calls parse_solutions
QuizReturn ==
  /\ pc = "parse_quizzes"
  /\ \/ i >= Len(lines)
     \/ i < Len(lines) /\ in_quizzes /\ re_solutions(raw)
  /\ pc' = "parse_solutions"
  /\ i' = 0
  /\ cur_key' = None
  /\ UNCHANGED <<lines, in_quizzes, in_solutions, quizzes, solutions, mergeA, toolB, call>>

QuizSection ==
  /\ pc = "parse_quizzes" /\ i < Len(lines)
  /\ in_quizzes /\ ~re_solutions(raw)
  /\ re_sec(raw) # None
  /\ LET msec1 == re_sec(raw)[1]
         key   == SectionKey("1", msec1.idx)
     IN  /\ cur_key' = Some(key)
         /\ quizzes' = DictPut(quizzes, [key       |-> key,
                                         title     |-> normalize_text(msec1.title),
                                         questions |-> <<>>])
  /\ i' = i + 1
  /\ UNCHANGED <<lines, pc, in_quizzes, in_solutions, solutions, mergeA, toolB, call>>

\* a question start inside a section; int(m.group(1)) raises ValueError on
\* a number of too many digits, which ends tool A
QuizQuestion ==
  /\ pc = "parse_quizzes" /\ i < Len(lines)
  /\ in_quizzes /\ ~re_solutions(raw)
  /\ re_sec(raw) = None
  /\ re_q(raw) # None /\ cur_key # None
  /\ IF IntRaises(re_q(raw)[1].num)
       THEN /\ build' = "raised"
            /\ pc' = "fill_parse_quizzes"
            /\ i' = 0
            /\ in_quizzes' = FALSE
            /\ UNCHANGED quizzes
       ELSE /\ \E r \in {ParseQuestion(lines, i, re_q(raw)[1])} :
                 /\ quizzes' = [quizzes EXCEPT
                                  ![KeyPos(quizzes, cur_key[1])].questions =
                                     Append(@, r.q)]
                 /\ i' = r.k
            /\ UNCHANGED <<pc, in_quizzes, build>>
  /\ UNCHANGED <<lines, in_solutions, cur_key, solutions, msec, out_qs,
                 out_sections, total, matched, toolB, call>>

QuizOther ==
  /\ pc = "parse_quizzes" /\ i < Len(lines)
  /\ in_quizzes /\ ~re_solutions(raw)
  /\ re_sec(raw) = None
  /\ ~(re_q(raw) # None /\ cur_key # None)
  /\ i' = i + 1
  /\ UNCHANGED <<lines, pc, scanA, mergeA, toolB, call>>

(***************************************************************************)
(* Tool A, parse_solutions: one action per iteration of the outer loop     *)
(***************************************************************************)
SolSkip ==
  /\ pc = "parse_solutions" /\ i < Len(lines)
  /\ ~in_solutions
  /\ in_solutions' = re_solutions(raw)
  /\ i' = i + 1
  /\ UNCHANGED <<lines, pc, in_quizzes, cur_key, quizzes, solutions, mergeA, toolB, call>>

SolSection ==
  /\ pc = "parse_solutions" /\ i < Len(lines)
  /\ in_solutions
  /\ re_sec_sol(raw) # None
  /\ LET key == SectionKey("2", re_sec_sol(raw)[1].idx)
     IN  /\ cur_key' = Some(key)
         /\ solutions' = DictPut(solutions, [key |-> key, entries |-> <<>>])
  /\ i' = i + 1
  /\ UNCHANGED <<lines, pc, in_quizzes, in_solutions, quizzes, mergeA, toolB, call>>

\* a question line inside a section; int(m.group(1)) raises as above
SolQuestion ==
  /\ pc = "parse_solutions" /\ i < Len(lines)
  /\ in_solutions
  /\ re_sec_sol(raw) = None
  /\ cur_key # None /\ re_q_sol(raw) # None
  /\ IF IntRaises(re_q_sol(raw)[1].num)
       THEN /\ build' = "raised"
            /\ pc' = "fill_parse_quizzes"
            /\ i' = 0
            /\ in_quizzes' = FALSE
            /\ UNCHANGED solutions
       ELSE /\ \E r \in {ParseSolution(lines, i, re_q_sol(raw)[1])} :
                 /\ solutions' = [solutions EXCEPT
                                    ![KeyPos(solutions, cur_key[1])].entries =
                                       MapPut(@, r.num, r.rec)]
                 /\ i' = r.k
            /\ UNCHANGED <<pc, in_quizzes, build>>
  /\ UNCHANGED <<lines, in_solutions, cur_key, quizzes, msec, out_qs,
                 out_sections, total, matched, toolB, call>>

SolOther ==
  /\ pc = "parse_solutions" /\ i < Len(lines)
  /\ in_solutions
  /\ re_sec_sol(raw) = None
  /\ ~(cur_key # None /\ re_q_sol(raw) # None)
  /\ i' = i + 1
  /\ UNCHANGED <<lines, pc, scanA, mergeA, toolB, call>>

\* the loop ends at the end of the lines; main then calls merge
SolReturn ==
  /\ pc = "parse_solutions" /\ i >= Len(lines)
  /\ pc' = "merge"
  /\ UNCHANGED <<lines, i, scanA, mergeA, toolB, call>>


(***************************************************************************)
(* Tool A, merge: one action per question, per section, and the return     *)
(***************************************************************************)
\* one iteration of the inner loop, for question Len(out_qs) + 1 of section
\* msec; an AttributeError ends tool A
MergeStep ==
  /\ pc = "merge" /\ msec <= Len(quizzes)
  /\ Len(out_qs) < Len(quizzes[msec].questions)
  /\ LET q   == quizzes[msec].questions[Len(out_qs) + 1]
         sol == SolutionsGet(solutions, SolKeyOf(quizzes[msec].key))
     IN  /\ total' = total + 1
         /\ IF QuestionRaises(q, sol)
              THEN /\ build' = "raised"
                   /\ pc' = "fill_parse_quizzes"
                   /\ i' = 0
                   /\ in_quizzes' = FALSE
                   /\ UNCHANGED <<out_qs, matched>>
              ELSE /\ out_qs' = Append(out_qs, MergeQuestion(q, sol))
                   /\ matched' = IF IsMatched(MergeQuestion(q, sol))
                                   THEN matched + 1 ELSE matched
                   /\ UNCHANGED <<build, pc, i, in_quizzes>>
  /\ UNCHANGED <<lines, in_solutions, cur_key, quizzes, solutions, msec,
                 out_sections, toolB, call>>

\* the end of the inner loop: out_sections.append(...)
MergeSectionDone ==
  /\ pc = "merge" /\ msec <= Len(quizzes)
  /\ Len(out_qs) = Len(quizzes[msec].questions)
  /\ out_sections' = Append(out_sections,
                            [section_key |-> SolKeyOf(quizzes[msec].key),
                             title       |-> quizzes[msec].title,
                             questions   |-> out_qs])
  /\ out_qs' = <<>>
  /\ msec' = msec + 1
  /\ UNCHANGED <<lines, pc, i, scanA, total, matched, build, toolB, call>>

\* merge returns and main writes the output file; tool B is run next
MergeReturn ==
  /\ pc = "merge" /\ msec > Len(quizzes)
  /\ build' = "written"
  /\ pc' = "fill_parse_quizzes"
  /\ i' = 0
  /\ in_quizzes' = FALSE
  /\ UNCHANGED <<lines, in_solutions, cur_key, quizzes, solutions, msec, out_qs,
                 out_sections, total, matched, toolB, call>>

(***************************************************************************)
(* Tool B, parse_quizzes: one action per iteration of the outer loop       *)
(***************************************************************************)
\* line = text[i].rstrip('\n')
line == LineAt(lines, i)

FillSkip ==
  /\ pc = "fill_parse_quizzes" /\ i < Len(lines)
  /\ ~in_quizzes
  /\ in_quizzes' = re_quizzes(line)
  /\ i' = i + 1
  /\ UNCHANGED <<lines, pc, in_solutions, cur_key, quizzes, solutions, mergeA, toolB, call>>

FillQuestion ==
  /\ pc = "fill_parse_quizzes" /\ i < Len(lines)
  /\ in_quizzes /\ ~re_solutions(line)
  /\ re_q(line) # None
  /\ \E r \in {fill_ParseQuestion(lines, i, re_q(line)[1])} :
       /\ \E key \in {fill_keyify(r.qtext)} :
            option_map' = StoreOptions(option_map, key, r.ordered)
       /\ parsed' = Append(parsed, [qtext |-> r.qtext, ordered |-> r.ordered,
                                    from |-> i, to |-> r.k])
       /\ i' = r.k
  /\ UNCHANGED <<lines, pc, scanA, mergeA, target, pos, filled, fill, call>>

FillOther ==
  /\ pc = "fill_parse_quizzes" /\ i < Len(lines)
  /\ in_quizzes /\ ~re_solutions(line)
  /\ re_q(line) = None
  /\ i' = i + 1
  /\ UNCHANGED <<lines, pc, scanA, mergeA, toolB, call>>

\* the loop ends at the solutions header or at the end of the lines; main
\* exits when the map is empty and else calls fill_json
FillReturn ==
  /\ pc = "fill_parse_quizzes"
  /\ \/ i >= Len(lines)
     \/ i < Len(lines) /\ in_quizzes /\ re_solutions(line)
  /\ IF option_map = <<>>
       THEN fill' = "fatal" /\ pc' = "done"
       ELSE fill' = fill /\ pc' = "fill_json"
  /\ UNCHANGED <<lines, i, scanA, mergeA, option_map, target, pos, filled,
                 parsed, call>>

(***************************************************************************)
(* Tool B, fill_json                                                       *)
(***************************************************************************)
\* process_question on the next question of the dataset
ProcessQuestion ==
  /\ pc = "fill_json" /\ pos < Len(target)
  /\ \E k \in {fill_keyify(OrEmpty(target[pos + 1].question))} :
       /\ target' = [target EXCEPT ![pos + 1] = process_question(@, k, option_map)]
       /\ filled' = IF IsFilled(k, option_map) THEN filled + 1 ELSE filled
  /\ pos' = pos + 1
  /\ UNCHANGED <<lines, pc, i, scanA, mergeA, option_map, fill, parsed, call>>

\* the dataset is written
FillWrite ==
  /\ pc = "fill_json" /\ pos = Len(target)
  /\ fill' = "written"
  /\ pc' = "done"
  /\ UNCHANGED <<lines, i, scanA, mergeA, option_map, target, pos, filled,
                 parsed, call>>

Next ==
  \/ QuizSkip \/ QuizReturn \/ QuizSection \/ QuizQuestion \/ QuizOther
  \/ SolSkip \/ SolSection \/ SolQuestion \/ SolOther \/ SolReturn
  \/ MergeStep \/ MergeSectionDone \/ MergeReturn
  \/ FillSkip \/ FillQuestion \/ FillOther \/ FillReturn
  \/ ProcessQuestion \/ FillWrite

Spec == Init /\ [][Next]_vars

SpecQuiz == InitQuiz /\ [][Next]_vars

SpecFill == InitFill /\ [][Next]_vars

SpecJoin == InitJoin /\ [][Next]_vars

SpecSol == InitSol /\ [][Next]_vars

SpecSec == InitSec /\ [][Next]_vars

SpecFrame == InitFrame /\ [][Next]_vars

(***************************************************************************)
(* The text functions on their own: a call of keyify, of keyify on its     *)
(* own result, or of letter_to_index, in the definition of each tool       *)
(***************************************************************************)
InitText ==
  /\ lines = <<>>
  /\ target = <<>>
  /\ pc = "call"
  /\ arg \in TextArgs
  /\ Fresh

CallKeyify ==
  /\ pc = "call" /\ arg.fn = "keyify"
  /\ ret' = [build |-> keyify(arg.v[1]), fill |-> fill_keyify(arg.v[1])]
  /\ pc' = "returned"
  /\ UNCHANGED <<lines, i, scanA, mergeA, toolB, arg>>

\* keyify(keyify(s))
CallKeyifyAgain ==
  /\ pc = "returned" /\ arg.fn = "keyify"
  /\ ret' = [build |-> keyify(ret.build), fill |-> fill_keyify(ret.fill)]
  /\ pc' = "returned twice"
  /\ UNCHANGED <<lines, i, scanA, mergeA, toolB, arg>>

CallLetterToIndex ==
  /\ pc = "call" /\ arg.fn = "letter_to_index"
  /\ ret' = [build |-> letter_to_index(arg.v), fill |-> fill_letter_to_index(arg.v)]
  /\ pc' = "returned"
  /\ UNCHANGED <<lines, i, scanA, mergeA, toolB, arg>>

NextText == CallKeyify \/ CallKeyifyAgain \/ CallLetterToIndex

SpecText == InitText /\ [][NextText]_vars

(***************************************************************************)
(* Properties                                                              *)
(***************************************************************************)
\* the question merge is about to merge, and the solutions of its section
MergeQ == quizzes[msec].questions[Len(out_qs) + 1]

MergeSol == SolutionsGet(solutions, SolKeyOf(quizzes[msec].key))

\* merge is at a quiz question whose number has no entry in the solution
\* section of its quiz section (the section may be missing as a whole)
AtUnsolvedQuestion ==
  /\ pc = "merge" /\ msec <= Len(quizzes)
  /\ Len(out_qs) < Len(quizzes[msec].questions)
  /\ EntryGet(MergeSol, MergeQ.number) = None

\* the record of a question without a solution entry
UnsolvedRecord(q) ==
  [number      |-> q.number,
   question    |-> q.question,
   options     |-> q.options,
   answer      |-> None,
   answerIndex |-> None,
   explanation |-> <<>>,
   domain      |-> <<>>,
   competency  |-> <<>>]

\* C1: for a quiz question whose number has no entry in the corresponding
\* solution section, merge does not raise and emits the question's record
\* with answer null, answerIndex null and explanation, domain and competency
\* empty.
C1_UnsolvedQuestionMerged ==
  [][AtUnsolvedQuestion =>
       /\ build' # "raised"
       /\ out_qs' = Append(out_qs, UnsolvedRecord(MergeQ))]_vars

\* merge has raised at a question it counted but did not emit
C1_Raised ==
  /\ build = "raised"
  /\ total = 1 /\ out_qs = <<>> /\ out_sections = <<>>

\* the records merge has emitted so far
MergedRecords ==
  {out_qs[n] : n \in DOMAIN out_qs}
    \cup UNION {{out_sections[s].questions[n] :
                   n \in DOMAIN out_sections[s].questions} :
                s \in DOMAIN out_sections}

\* C2: in every record merge has produced and in every question
\* process_question has processed, an answerIndex that is present beside a
\* non-empty option list lies in 0 .. len(options) - 1.
C2_AnswerIndexInRange ==
  /\ \A aq \in MergedRecords :
       aq.answerIndex # None /\ aq.options # <<>>
         => aq.answerIndex[1] \in 0..(Len(aq.options) - 1)
  /\ \A n \in 1..pos :
       target[n].answerIndex # None /\ target[n].options # None
         /\ target[n].options[1] # <<>>
         => target[n].answerIndex[1] \in 0..(Len(target[n].options[1]) - 1)

\* merge has emitted answer E, index 4, beside two options
C2_IndexPastOptions ==
  \E aq \in MergedRecords :
    aq.answer = Some(<<"E">>) /\ aq.answerIndex = Some(4) /\ Len(aq.options) = 2

\* the lines of the quizzes region: the index of the quizzes header and of
\* the first solutions header after it, as the main scan of tool A (clean =
\* TRUE) or of tool B classifies the lines
HeaderLine(ls, j, clean) ==
  IF clean THEN clean_line(LineAt(ls, j)) ELSE LineAt(ls, j)

QuizzesStart(ls, clean) ==
  {j \in 0..(Len(ls) - 1) :
     /\ re_quizzes(HeaderLine(ls, j, clean))
     /\ \A h \in 0..(j - 1) : ~re_quizzes(HeaderLine(ls, h, clean))}

SolutionsStop(ls, clean) ==
  {j \in 0..(Len(ls) - 1) :
     /\ re_solutions(HeaderLine(ls, j, clean))
     /\ \E q \in QuizzesStart(ls, clean) :
          /\ q < j
          /\ \A h \in (q + 1)..(j - 1) : ~re_solutions(HeaderLine(ls, h, clean))}

\* C3: in the quiz parser of both tools the scan never moves past the first
\* solutions header of the quizzes region, so that no line at or after the
\* header is taken into a question; in tool B each parsed question ends at
\* the header at the latest.
C3_SolutionsHeaderStops ==
  /\ pc = "parse_quizzes" =>
       \A h \in SolutionsStop(lines, TRUE) : i <= h
  /\ pc = "fill_parse_quizzes" =>
       \A h \in SolutionsStop(lines, FALSE) :
         /\ i <= h
         /\ \A n \in DOMAIN parsed : parsed[n].to <= h

\* the option loop of tool A has taken the solutions header into an option
C3_HeaderInOption ==
  /\ pc = "parse_quizzes"
  /\ \E h \in SolutionsStop(lines, TRUE) : i > h
  /\ \E s \in DOMAIN quizzes : \E n \in DOMAIN quizzes[s].questions :
       \E o \in DOMAIN quizzes[s].questions[n].options :
         EndsWith(quizzes[s].questions[n].options[o], <<"2", " ">> \o W_Solutions)

\* a call of letter_to_index has returned
LetterReturned == pc = "returned" /\ arg.fn = "letter_to_index"

\* the index of the only character of the text that is no whitespace, when
\* that character is one of a..e or A..E; None for every other text and for
\* null
IndexOfPaddedLetter(ch) ==
  IF /\ ch # None
     /\ \E p \in DOMAIN ch[1] :
          /\ \E n \in DOMAIN OptionLetters : OptionLetters[n] = UpperChar(ch[1][p])
          /\ \A r \in DOMAIN ch[1] \ {p} : IsWs(ch[1][r])
    THEN LET p == CHOOSE p \in DOMAIN ch[1] : ~IsWs(ch[1][p])
         IN  Some((CHOOSE n \in DOMAIN OptionLetters :
                     OptionLetters[n] = UpperChar(ch[1][p])) - 1)
    ELSE None

\* C4, as the specification states it: letter_to_index of both tools returns
\* 0..4 for exactly the one-character texts A, B, C, D, E and null for every
\* other input, the lowercase and the padded letters among them.
C4_OnlyTheFiveLetters ==
  LetterReturned =>
    /\ ret.build = letter_to_index_exact(arg.v)
    /\ ret.fill = letter_to_index_exact(arg.v)

\* C4, as the code has it: letter_to_index of both tools returns the index of
\* the letter for a text that holds, between whitespace, one letter of a..e
\* or A..E, and null for every other input.
C4_LetterToIndex ==
  LetterReturned =>
    /\ ret.build = IndexOfPaddedLetter(arg.v)
    /\ ret.fill = IndexOfPaddedLetter(arg.v)

\* letter_to_index(' e') has returned 4 in both tools
C4_PaddedLowercase ==
  /\ LetterReturned
  /\ arg.v = Some(<<" ", "e">>)
  /\ ret = [build |-> Some(4), fill |-> Some(4)]

\* C5: on the scenario, tool A ends having written one section, of key
\* "2.1", that holds one record: number 1, question "What is a Pod?",
\* options "A container" and "A group of containers", answer "B",
\* answerIndex 1, explanation "It groups containers.", domain
\* "Fundamentals", competency "".
C5_Scenario ==
  lines = Scenario /\ pc \notin {"parse_quizzes", "parse_solutions", "merge"} =>
    /\ build = "written"
    /\ Len(out_sections) = 1
    /\ out_sections[1].section_key = <<"2", ".", "1">>
    /\ out_sections[1].questions =
         <<[number      |-> 1,
            question    |-> Chars["What is a Pod?"],
            options     |-> <<Chars["A container"], Chars["A group of containers"]>>,
            answer      |-> Some(<<"B">>),
            answerIndex |-> Some(1),
            explanation |-> Chars["It groups containers."],
            domain      |-> Chars["Fundamentals"],
            competency  |-> <<>>]>>

\* tool A has run on the scenario, merged one question and written its file
C5_ScenarioWritten ==
  lines = Scenario /\ build = "written" /\ total = 1 /\ matched = 1

\* The options of a question whose lines are from..(to - 1), read off the
\* lines: the lines that start an option, the last of them for each letter,
\* the text of an option being its first line's text and the lines up to the
\* next option start, each stripped, joined by spaces and normalized.
OptionStarts(ls, from, to, clean) ==
  {p \in from..(to - 1) : re_opt(HeaderLine(ls, p, clean)) # None}

LastStart(ls, from, to, clean, letter) ==
  LET S == {p \in OptionStarts(ls, from, to, clean) :
              re_opt(HeaderLine(ls, p, clean))[1].letter = letter}
  IN  CHOOSE p \in S : \A r \in S : r <= p

BlockEnd(ls, from, to, clean, p) ==
  LET S == {r \in OptionStarts(ls, from, to, clean) : r > p}
  IN  IF S = {} THEN to ELSE CHOOSE r \in S : \A u \in S : r <= u

BlockText(ls, clean, p, e) ==
  LET idx  == [n \in 1..(e - p - 1) |-> p + n]
      kept == SelectSeq(idx, LAMBDA x : ~IsPageNumber(HeaderLine(ls, x, clean)))
  IN  Join(<<" ">>,
           <<Strip(re_opt(HeaderLine(ls, p, clean))[1].rest)>>
             \o [n \in DOMAIN kept |-> Strip(HeaderLine(ls, kept[n], clean))])

OptionText(ls, from, to, clean, letter) ==
  LET p    == LastStart(ls, from, to, clean, letter)
      text == BlockText(ls, clean, p, BlockEnd(ls, from, to, clean, p))
  IN  IF clean THEN normalize_text(text) ELSE fill_normalize_text(text)

ExpectedOptions(ls, from, to, clean) ==
  LET seen == SelectSeq(OptionLetters,
                LAMBDA c : /\ \E p \in OptionStarts(ls, from, to, clean) :
                                re_opt(HeaderLine(ls, p, clean))[1].letter = c
                           /\ OptionText(ls, from, to, clean, c) # <<>>)
  IN  [n \in DOMAIN seen |-> OptionText(ls, from, to, clean, seen[n])]

\* an option list of at most five texts, none of them empty
WellFormedOptions(options) ==
  /\ Len(options) \in 0..5
  /\ \A n \in DOMAIN options : options[n] # <<>>

\* the question the quiz parser of tool A has just appended
LastQuestion(qz, key) ==
  LET qs == qz[KeyPos(qz, key)].questions IN qs[Len(qs)]

\* the end of the option lines of the question tool B has just parsed: the
\* Answer line its option loop consumed is none of them
FillOptionsEnd(ls, from, to) ==
  IF to - 1 > from /\ IsAnswerLine(LineAt(ls, to - 1)) THEN to - 1 ELSE to

\* C6: each question the quiz parser of either tool parses gets as options
\* the non-empty texts of the option letters seen in its lines, in the order
\* A, B, C, D, E whatever the order of the lines, the last option line of a
\* letter replacing the earlier ones, without a placeholder for an absent or
\* empty letter: at most five texts and no empty one.
C6_OrderedOptions ==
  [][/\ QuizQuestion /\ quizzes' # quizzes =>
          \E q \in {LastQuestion(quizzes', cur_key[1])} :
            /\ \E e \in {ExpectedOptions(lines, i + 1, i', TRUE)} : q.options = e
            /\ WellFormedOptions(q.options)
     /\ FillQuestion =>
          \E q \in {parsed'[Len(parsed')]} :
            /\ \E e \in {ExpectedOptions(lines, i + 1,
                                          FillOptionsEnd(lines, i, i'), FALSE)} :
                 q.ordered = e
            /\ WellFormedOptions(q.ordered)]_vars

\* option lines D then B and no others: tool A has parsed the two options
\* B, D in the order of the letters
C6_LettersReordered ==
  /\ lines = <<"1 Quizzes", "1.1 Intro", "1. What is a Pod?", "D. di-",
               "B. A group of containers">>
  /\ pc = "parse_solutions"
  /\ quizzes[1].questions[1].options =
       <<Chars["A group of containers"], <<"d", "i", "-">>>>

\* a text with its letters lowercased and every character other than a
\* letter, a digit or a space left out
Skeleton(s) == SelectSeq(Lower(s), IsKeyChar)

\* the text of the n-th question of the dataset
TargetText(n) == OrEmpty(target[n].question)

\* the parsed questions after the m-th that have options
LaterWithOptions(m) == {r \in (m + 1)..Len(parsed) : parsed[r].ordered # <<>>}

\* C7, as the specification states it: a processed dataset question whose
\* text differs from the text of a parsed quiz question in letter case and
\* punctuation only has that quiz question's options (the quiz question
\* being one with options, and the last such of its text).
C7_SameUpToPunctuation ==
  \A n \in 1..pos : \A m \in DOMAIN parsed :
    /\ Skeleton(TargetText(n)) = Skeleton(parsed[m].qtext)
    /\ parsed[m].ordered # <<>>
    /\ \A r \in LaterWithOptions(m) :
         Skeleton(parsed[r].qtext) # Skeleton(parsed[m].qtext)
    => target[n].options = Some(parsed[m].ordered)

\* C7, as the code has it: a processed dataset question whose text has the
\* key (keyify) of a parsed quiz question with options, the last such of
\* that key, has that quiz question's options.
C7_SameKey ==
  \A n \in 1..pos : \A m \in DOMAIN parsed :
    /\ fill_keyify(TargetText(n)) = fill_keyify(parsed[m].qtext)
    /\ parsed[m].ordered # <<>>
    /\ \A r \in LaterWithOptions(m) :
         fill_keyify(parsed[r].qtext) # fill_keyify(parsed[m].qtext)
    => target[n].options = Some(parsed[m].ordered)

\* the dataset question WHAT'S A POD, which had the option "old", has got
\* the options of the quiz question What's a Pod?
C7_OptionsReplaced ==
  /\ pos = 1
  /\ TargetText(1) = Chars["WHAT'S A POD"]
  /\ \E m \in DOMAIN parsed :
       /\ parsed[m].qtext = Drop(Chars["1. What's a Pod?"], 3)
       /\ parsed[m].ordered = <<Chars["A group of containers"]>>
       /\ target[1].options = Some(parsed[m].ordered)
  /\ filled = 1

\* the three scanners
Scanners == {"parse_quizzes", "parse_solutions", "fill_parse_quizzes"}

\* C8: every iteration of the outer loop of a scanner moves the line index
\* forward and never past the end of the lines, so that each scanner returns
\* after at most len(lines) iterations; at every point of a scan either an
\* iteration or the return is possible, and no step raises.
C8_ScanAdvances ==
  [][(pc \in Scanners) =>
       /\ (pc' = pc) => (i < i' /\ i' <= Len(lines))
       /\ (pc' # pc) => (i >= Len(lines) \/ re_solutions(LineAt(lines, i)))
       /\ build' = build
       /\ fill' = fill \/ (fill' = "fatal" /\ option_map = <<>>)]_vars

\* parse_quizzes of tool A has raised at a question line whose number has
\* more digits than int() converts: the section has no question and tool A
\* has ended
C8_NumberTooLong ==
  /\ lines = <<"1 Quizzes", "1.1 Intro", "<4301 x 1>. What?">>
  /\ build = "raised"
  /\ quizzes = <<[key |-> <<"1", ".", "1">>, title |-> Chars["Intro"],
                  questions |-> <<>>]>>
  /\ solutions = <<>> /\ total = 0

\* the questions of tool A's sections, in the order of the sections
RECURSIVE AllQuestions(_)
AllQuestions(qz) ==
  IF qz = <<>> THEN <<>> ELSE Head(qz).questions \o AllQuestions(Tail(qz))

\* the map of tool B obtained from the questions of tool A: visiting them in
\* order, map[keyify(question)] = options when the options are not empty
ReducedMap(qs) ==
  LET F[n \in 0..Len(qs)] ==
        IF n = 0 THEN <<>>
        ELSE IF qs[n].options # <<>>
          THEN MapPut(F[n - 1], keyify(qs[n].question), qs[n].options)
          ELSE F[n - 1]
  IN  F[Len(qs)]

\* C9: once both quiz parsers have run on the same lines, the map of tool B
\* is the map obtained from the questions of tool A.
C9_ParsersAgree ==
  pc \in {"fill_json", "done"} => option_map = ReducedMap(AllQuestions(quizzes))

\* on a file whose last option runs into the solutions header, tool A has
\* the option "A container 2 Solutions" and tool B the option "A container"
C9_OptionTextsDiffer ==
  /\ pc = "fill_json"
  /\ lines = <<"1 Quizzes", "1.1 Intro", "1. What is a Pod?", "A. A container",
               "2 Solutions">>
  /\ quizzes[1].questions[1].options =
       <<Chars["A container"] \o <<" ", "2", " ">> \o W_Solutions>>
  /\ option_map[Chars["what is a pod"]] = <<Chars["A container"]>>

\* a call of keyify, or of keyify on its own result, has returned
KeyifyReturned == pc = "returned" /\ arg.fn = "keyify"

KeyifyReturnedTwice == pc = "returned twice" /\ arg.fn = "keyify"

\* the text with a space in the place of each character outside [a-z0-9 ]
SpacedOut(s) == [n \in DOMAIN s |-> IF IsKeyChar(s[n]) THEN s[n] ELSE " "]

\* the rest of the steps of keyify: collapse the whitespace runs, trim
Collapsed(s) == Strip(SubWsRuns(s))

\* a key: characters of [a-z0-9 ] only, no space at either end, no two
\* spaces in a row
IsKey(s) ==
  /\ \A n \in DOMAIN s : IsKeyChar(s[n])
  /\ s # <<>> => s[1] # " " /\ s[Len(s)] # " "
  /\ \A n \in 1..(Len(s) - 1) : ~(s[n] = " " /\ s[n + 1] = " ")

\* C10, as the specification states it: keyify(s) is normalize_text(s),
\* lowercased, with every character outside [a-z0-9 ] deleted, its
\* whitespace runs collapsed, trimmed.
C10_KeyifyDeletes ==
  KeyifyReturned =>
    /\ ret.build = keyify_deleting(arg.v[1])
    /\ ret.fill = fill_keyify_deleting(arg.v[1])

\* C10, as the code has it: keyify(s) is normalize_text(s), lowercased, with
\* a space in the place of every character outside [a-z0-9 ], its whitespace
\* runs collapsed, trimmed; the result is a key, and keyify of it is the
\* result again.
C10_Keyify ==
  KeyifyReturned \/ KeyifyReturnedTwice =>
    /\ ret.build = Collapsed(SpacedOut(Lower(normalize_text(arg.v[1]))))
    /\ ret.fill = Collapsed(SpacedOut(Lower(fill_normalize_text(arg.v[1]))))
    /\ IsKey(ret.build) /\ IsKey(ret.fill)

\* keyify("a'B") has returned "a b" in both tools, and keyify of that too
C10_SpaceForApostrophe ==
  /\ KeyifyReturnedTwice
  /\ arg.v = Some(<<"a", "'", "B">>)
  /\ ret = [build |-> <<"a", " ", "b">>, fill |-> <<"a", " ", "b">>]

\* the numbers of a list of question records are positive and distinct
NumbersPositiveAndDistinct(qs) ==
  \A n \in DOMAIN qs :
    /\ qs[n].number >= 1
    /\ \A m \in DOMAIN qs : m # n => qs[m].number # qs[n].number

\* C11: in every section of parse_quizzes of tool A, and in every section
\* merge emits, each question's number is at least 1 and no two questions of
\* the section have the same number.
C11_NumbersPositiveUnique ==
  /\ \A s \in DOMAIN quizzes : NumbersPositiveAndDistinct(quizzes[s].questions)
  /\ NumbersPositiveAndDistinct(out_qs)
  /\ \A s \in DOMAIN out_sections :
       NumbersPositiveAndDistinct(out_sections[s].questions)

\* parse_quizzes has returned a section whose only question has the number 0
C11_NumberZero ==
  /\ pc = "parse_solutions"
  /\ Len(quizzes) = 1
  /\ Len(quizzes[1].questions) = 1
  /\ quizzes[1].questions[1].number = 0

\* the lines that end the question text of a quiz question and of a
\* solution question
QuizTextStops(s) == re_opt(s) # None \/ re_q(s) # None \/ IsAnswerLine(s)

SolTextStops(s) == re_ans(s) # None \/ re_sec_sol(s) # None \/ re_q_sol(s) # None

\* the index of the first line after line from that ends the question text (the
\* number of lines when there is none), for a quiz or a solution question
TextEnd(ls, from, quiz) ==
  CHOOSE j \in (from + 1)..Len(ls) :
    /\ j < Len(ls) =>
         IF quiz THEN QuizTextStops(clean_line(LineAt(ls, j)))
                 ELSE SolTextStops(clean_line(LineAt(ls, j)))
    /\ \A h \in (from + 1)..(j - 1) :
         IF quiz THEN ~QuizTextStops(clean_line(LineAt(ls, h)))
                 ELSE ~SolTextStops(clean_line(LineAt(ls, h)))

\* the fragments of a question text: the rest of the question line, then the
\* lines up to line j that are no page numbers, each stripped, the empty
\* ones left out
Fragments(ls, from, j, first) ==
  LET idx   == [n \in 1..(j - from - 1) |-> from + n]
      kept  == SelectSeq(idx, LAMBDA x : ~IsPageNumber(clean_line(LineAt(ls, x))))
      texts == <<Strip(first)>>
                 \o [n \in DOMAIN kept |-> Strip(clean_line(LineAt(ls, kept[n])))]
  IN  SelectSeq(texts, LAMBDA f : f # <<>>)

\* fragment n as it stands in the assembled text: after a space unless it is
\* the first or follows a fragment that ends with a hyphen, and without its
\* own trailing hyphen unless it is the last
Piece(fr, n) ==
  (IF n > 1 /\ fr[n - 1][Len(fr[n - 1])] # "-" THEN <<" ">> ELSE <<>>)
    \o (IF n < Len(fr) /\ fr[n][Len(fr[n])] = "-"
          THEN SubSeq(fr[n], 1, Len(fr[n]) - 1) ELSE fr[n])

Assembled(fr) ==
  LET F[n \in 0..Len(fr)] == IF n = 0 THEN <<>> ELSE F[n - 1] \o Piece(fr, n)
  IN  F[Len(fr)]

\* C12: the question text of a quiz question and of a solution question is
\* the normalized assembly of its fragments, in which a fragment that ends
\* with a hyphen loses the hyphen and is followed at once by the next
\* non-empty fragment, whatever empty lines and page numbers lie between
\* them, and every other fragment is followed by one space.
C12_HyphenRepair ==
  [][/\ QuizQuestion /\ quizzes' # quizzes =>
          \E q \in {LastQuestion(quizzes', cur_key[1])} :
          \E fr \in {Fragments(lines, i, TextEnd(lines, i, TRUE),
                               re_q(raw)[1].rest)} :
            q.question = normalize_text(Assembled(fr))
     /\ SolQuestion /\ solutions' # solutions =>
          \E m \in {re_q_sol(raw)[1]} :
          \E fr \in {Fragments(lines, i, TextEnd(lines, i, FALSE), m.rest)} :
            solutions'[KeyPos(solutions, cur_key[1])].entries[ToInt(m.num)].question
              = normalize_text(Assembled(fr))]_vars

\* di- and rectly with an empty line and a page number between them: both
\* parsers have the question text "directly"
C12_Directly ==
  /\ pc = "merge"
  /\ Len(lines) >= 7
  /\ lines[3] = "1. di-" /\ lines[4] = "" /\ lines[5] = " 7 "
  /\ lines[6] = "rectly" /\ lines[7] = "A. A container"
  /\ quizzes[1].questions[1].question = Chars["directly"]
  /\ solutions[1].entries[1].question = Chars["directly"]

\* the index of the first section header or question start after the
\* solution question at line from (the number of lines when there is none)
RecordEnd(ls, from) ==
  CHOOSE j \in (from + 1)..Len(ls) :
    /\ j < Len(ls) =>
         \E s \in {clean_line(LineAt(ls, j))} :
           re_sec_sol(s) # None \/ re_q_sol(s) # None
    /\ \A h \in (from + 1)..(j - 1) :
         \E s \in {clean_line(LineAt(ls, h))} :
           re_sec_sol(s) = None /\ re_q_sol(s) = None

Max(S) == CHOOSE x \in S : \A y \in S : y <= x

Min(S) == CHOOSE x \in S : \A y \in S : x <= y

\* the lines of the set S of each kind the answer and explanation loops
\* tell apart
AnswerLines(ls, S) == {h \in S : re_ans(clean_line(LineAt(ls, h))) # None}

ExplanationLines(ls, S) ==
  {h \in S : \E s \in {clean_line(LineAt(ls, h))} :
     re_ans(s) = None /\ re_expl(s) # None}

DomainLines(ls, S) == {h \in S : re_domain(clean_line(LineAt(ls, h))) # None}

CompetencyLines(ls, S) ==
  {h \in S : \E s \in {clean_line(LineAt(ls, h))} :
     re_domain(s) = None /\ re_competency(s) # None}

ReturnLines(ls, S) == {h \in S : IsReturnLine(clean_line(LineAt(ls, h)))}

PageNumberLines(ls, S) == {h \in S : IsPageNumber(clean_line(LineAt(ls, h)))}

\* the rest of the Explanation line x and the lines after it up to line to
\* that are not in the set dropped, stripped and joined by spaces
ExplanationText(ls, x, to, dropped) ==
  LET idx  == [n \in 1..(to - 1 - x) |-> x + n]
      kept == SelectSeq(idx, LAMBDA h : h \notin dropped)
  IN  Join(<<" ">>,
        <<Strip(re_expl(clean_line(LineAt(ls, x)))[1])>>
          \o [n \in DOMAIN kept |-> Strip(clean_line(LineAt(ls, kept[n])))])

\* the entry parse_solutions has just recorded for the question at line i
NewEntry ==
  solutions'[KeyPos(solutions', cur_key[1])].entries[ToInt(re_q_sol(raw)[1].num)]

SolRecorded == SolQuestion /\ solutions' # solutions

\* the field a Domain or Competency line sets
FieldOf(value) == IF value = None THEN None ELSE Some(normalize_text(value[1]))

\* The explanation, domain and competency recorded for the solution question
\* at line i when its first Explanation line after the question text opens
\* the explanation: every later line up to the next section header or
\* question start is appended, but for the Domain and Competency lines, the
\* last of which sets the field, the Return to Question lines, the
\* page-number lines if pages, and the Correct Answer lines if answers.
ExplanationAbsorbs(pages, answers) ==
  SolRecorded =>
    \E to \in {RecordEnd(lines, i)} :
    \E j \in {TextEnd(lines, i, FALSE)} :
    \E el \in {ExplanationLines(lines, j..(to - 1))} :
      el # {} =>
        \E x \in {Min(el)} :
        \E S \in {(x + 1)..(to - 1)} :
        \E dl \in {DomainLines(lines, S)} :
        \E cl \in {CompetencyLines(lines, S)} :
        \E dropped \in {dl \cup cl \cup ReturnLines(lines, S)
                           \cup (IF pages THEN PageNumberLines(lines, S) ELSE {})
                           \cup (IF answers THEN AnswerLines(lines, S) ELSE {})} :
        \E joined \in {ExplanationText(lines, x, to, dropped)} :
        \E text \in {normalize_text(joined)} :
        \E d \in {IF dl = {} THEN None
                  ELSE re_domain(clean_line(LineAt(lines, Max(dl))))} :
        \E c \in {IF cl = {} THEN None
                  ELSE re_competency(clean_line(LineAt(lines, Max(cl))))} :
        \E e \in {NewEntry} :
          /\ e.explanation = text
          /\ e.domain = FieldOf(d)
          /\ e.competency = FieldOf(c)

\* the answer recorded for the solution question at line i is the letter of
\* the last of its Correct Answer lines
LastAnswerStands ==
  SolRecorded =>
    \E to \in {RecordEnd(lines, i)} :
    \E al \in {AnswerLines(lines, (i + 1)..(to - 1))} :
      al # {} =>
        \E a \in {re_ans(clean_line(LineAt(lines, Max(al))))} :
        \E e \in {NewEntry} :
          e.answer = Some(<<a[1]>>)

\* C13: the answer of a solution question is the letter of its last Correct
\* Answer line, wherever the line stands before the next section header or
\* question start, and no Correct Answer line is part of the explanation.
C13_AnswerAnywhere ==
  [][LastAnswerStands /\ ExplanationAbsorbs(TRUE, TRUE)]_vars

\* Correct Answer: E after the Explanation line: the answer stays B and the
\* line is part of the explanation
C13_AnswerInExplanation ==
  /\ pc = "merge"
  /\ lines = <<"2 Solutions", "2.1 Intro", "1. Question What is a Pod?",
               "Correct Answer: B", "Explanation: It groups containers.",
               "Correct Answer: E">>
  /\ solutions[1].entries[1].answer = Some(<<"B">>)
  /\ solutions[1].entries[1].explanation
       = Chars["It groups containers. Correct Answer: E"]

WithoutPageNumbers(ls, from) ==
  SubSeq(ls, 1, from + 1)
    \o SelectSeq(SubSeq(ls, from + 2, Len(ls)),
                 LAMBDA n : ~IsPageNumber(clean_line(Chars[n])))

\* C15: the record of a quiz question (text and options) and of a solution
\* question (text, answer, explanation, domain, competency) is the record
\* the same lines give once the page-number lines after the question line
\* are taken out: a page-number line adds nothing to a buffer, closes none
\* and changes no letter.
C15_PageNumbersSkipped ==
  [][/\ QuizQuestion /\ quizzes' # quizzes =>
          \E ls \in {WithoutPageNumbers(lines, i)} :
          \E r \in {ParseQuestion(ls, i, re_q(raw)[1])} :
          \E q \in {LastQuestion(quizzes', cur_key[1])} :
            q = r.q
     /\ SolRecorded =>
          \E ls \in {WithoutPageNumbers(lines, i)} :
          \E r \in {ParseSolution(ls, i, re_q_sol(raw)[1])} :
          \E e \in {NewEntry} :
            e = r.rec]_vars

\* a page number after the question line, after the option, after the
\* solution question line and after the Explanation line: no text has it
C15_PageNumberInEveryBuffer ==
  /\ pc = "merge"
  /\ lines = <<"1 Quizzes", "1.1 Intro", "1. What", " 7 ", "A. A container",
               " 7 ", "Answer", "2 Solutions", "2.1 Intro", "1. Question What",
               " 7 ", "Correct Answer: B", "Explanation: It groups containers.",
               " 7 ">>
  /\ quizzes[1].questions[1].question = Chars["What"]
  /\ quizzes[1].questions[1].options = <<Chars["A container"]>>
  /\ solutions[1].entries[1].question = Chars["What"]
  /\ solutions[1].entries[1].answer = Some(<<"B">>)
  /\ solutions[1].entries[1].explanation = Chars["It groups containers."]

\* the places of the records merge has emitted: section and position
Emitted ==
  UNION {{<<s, n>> : n \in DOMAIN out_sections[s].questions} :
         s \in DOMAIN out_sections}

\* the emitted records with a non-empty option list and an answer index
EmittedMatched ==
  {p \in Emitted :
     \E aq \in {out_sections[p[1]].questions[p[2]]} :
       Len(aq.options) > 0 /\ aq.answerIndex # None}

\* the target questions whose options fill_json has overwritten
Overwritten == {n \in DOMAIN target : target[n].options # Dataset0[n].options}

ParsedKey(m) == fill_keyify(parsed[m].qtext)

\* the parsed questions that share their key with another parsed question
Colliding ==
  {m \in DOMAIN parsed : \E r \in DOMAIN parsed : r # m /\ ParsedKey(r) = ParsedKey(m)}

\* the options the option map holds for a key, none when it has no entry
HeldFor(key) == IF key \in DOMAIN option_map THEN option_map[key] ELSE <<>>

\* C17 as stated: of the parsed questions that share a key, the one parsed
\* last has its options in the option map, whatever they are.
C17_LastParsedWins ==
  \A m \in Colliding :
    (\A r \in (m + 1)..Len(parsed) : ParsedKey(r) # ParsedKey(m))
      => HeldFor(ParsedKey(m)) = parsed[m].ordered

\* C17: of the parsed questions that share a key and have at least one
\* option, the one parsed last has its options in the option map; a question
\* without options leaves the map as it is.
C17_LastWithOptionsWins ==
  \A m \in Colliding :
    /\ parsed[m].ordered # <<>>
    /\ \A r \in LaterWithOptions(m) : ParsedKey(r) # ParsedKey(m)
    => HeldFor(ParsedKey(m)) = parsed[m].ordered

\* two parsed questions of one key with different options (after the
\* section header, which tool B takes for a question): the map holds those
\* of the second
C17_SecondReplacesFirst ==
  /\ Len(parsed) = 3
  /\ ParsedKey(2) = ParsedKey(3)
  /\ parsed[2].ordered = <<Chars["A container"]>>
  /\ parsed[3].ordered = <<Chars["A group of containers"]>>
  /\ option_map[ParsedKey(3)] = parsed[3].ordered

\* the section header at line i has the key of a section opened before
HeaderRepeated ==
  /\ QuizSection
  /\ \E s \in DOMAIN quizzes : quizzes[s].key = cur_key'[1]

\* C18: a section header of parse_quizzes whose key was opened before leaves
\* the number and the order of the sections as they are, puts the header's
\* title and an empty question list in the place of the key, so that the
\* questions under the earlier header are gone, and leaves the other
\* sections as they are.
C18_SectionReplaced ==
  [][HeaderRepeated =>
       /\ Len(quizzes') = Len(quizzes)
       /\ \A s \in DOMAIN quizzes :
            IF quizzes[s].key = cur_key'[1]
              THEN quizzes'[s] = [key       |-> quizzes[s].key,
                                  title     |-> normalize_text(re_sec(raw)[1].title),
                                  questions |-> <<>>]
              ELSE quizzes'[s] = quizzes[s]]_vars

\* 1.1 Intro with a question, 1.2 Other, then 1.1 Again: section 1.1
\* is still the first, with the title Again and no question
C18_QuestionsGone ==
  /\ pc = "parse_quizzes" /\ i = 5
  /\ lines = <<"1 Quizzes", "1.1 Intro", "1. What is a Pod?", "1.2 Other",
               "1.1 Again">>
  /\ quizzes = <<[key |-> Chars["1.1"], title |-> Chars["Again"], questions |-> <<>>],
                 [key |-> Chars["1.2"], title |-> Chars["Other"], questions |-> <<>>]>>

\* the output sections os have the shape of the quiz sections qz: one
\* section per quiz section in the same order, keyed 2.<n> for 1.<n>, with
\* one record per quiz question in the same order that has the quiz
\* question's number, text and options
SameShape(os, qz) ==
  /\ Len(os) = Len(qz)
  /\ \A s \in DOMAIN qz :
       /\ os[s].section_key = <<"2">> \o Tail(qz[s].key)
       /\ Len(os[s].questions) = Len(qz[s].questions)
       /\ \A n \in DOMAIN qz[s].questions :
            /\ os[s].questions[n].number = qz[s].questions[n].number
            /\ os[s].questions[n].question = qz[s].questions[n].question
            /\ os[s].questions[n].options = qz[s].questions[n].options

\* C19: when merge is over, its output has the shape of the quiz sections,
\* also for a quiz section of which no solution section was parsed.
C19_MergeShape ==
  [][(pc = "merge" /\ pc' # "merge") => SameShape(out_sections', quizzes)]_vars

\* merge is over for a quiz section 1.1 with a question and no solution
\* section 2.1: it has raised and there is no output section
C19_NoSolutionSection ==
  /\ build = "raised"
  /\ Len(quizzes) = 1 /\ Len(quizzes[1].questions) = 1
  /\ Len(solutions) = 1 /\ solutions[1].key = Chars["2.2"]
  /\ out_sections = <<>>

\* the question fill_json processes at this step, before and after
Before == target[pos + 1]

After == target'[pos + 1]

\* C20: process_question leaves the number and order of the questions, every
\* other question and the fields question and answer of its question as
\* they are; it leaves options as it is when the question's key is not in
\* the option map, and answerIndex as it is when that is an integer and
\* when the answer is absent or no letter of the letter map.
C20_ProcessQuestionFrame ==
  [][ProcessQuestion =>
       /\ Len(target') = Len(target)
       /\ \A n \in DOMAIN target : n # pos + 1 => target'[n] = target[n]
       /\ DOMAIN After = DOMAIN Before
       /\ After.question = Before.question
       /\ After.answer = Before.answer
       /\ \E key \in {fill_keyify(OrEmpty(Before.question))} :
            key \notin DOMAIN option_map => After.options = Before.options
       /\ Before.answerIndex # None => After.answerIndex = Before.answerIndex
       /\ \E a \in {Before.answer} :
            (a = None \/ LetterMapGet(Upper(Strip(a[1]))) = None)
              => After.answerIndex = Before.answerIndex]_vars

\* both questions processed: the first has got the quiz question's options
\* and keeps its answer index 3 beside the answer B, the second, of a key
\* the map has not, is as it was
C20_IndexKept ==
  /\ pos = 2
  /\ target[1] = Question(Some(Chars["what is a pod"]),
                          Some(<<Chars["A container"]>>), Some(<<"B">>), Some(3))
  /\ target[2] = Question(Some(Chars["Whats a Pod"]), None, Some(<<"F">>), None)

=============================================================================
